---- MODULE Spec2Model ----
(***************************************************************************)
(* Model of sasanalyticstoolsexplorerv1.py: a Streamlit script whose       *)
(* main() reads one navigation selection and calls one of five page        *)
(* renderers.  One display cycle is one run of main().                     *)
(*                                                                         *)
(* Python dicts are insertion ordered: a dict is a sequence of             *)
(* [key, value] records.  Every st.* call appends one element to `output`. *)
(* Non-ASCII glyphs of the source are written as ASCII names.              *)
(* Floats are fixed point: Sales and Customers in tenths, Satisfaction in  *)
(* hundredths.                                                             *)
(***************************************************************************)
EXTENDS Integers, Sequences, FiniteSets, TLC

VARIABLES sas_tools,    \* module-level content table (lines 15-36)
          pc,           \* position of the script: idle, a renderer, done, error
          page,         \* value returned by the navigation radio
          selection,    \* value returned by the page's dropdown, None if none
          output,       \* elements emitted in the current display cycle
          calls,        \* invocations of each renderer in the current cycle
          error,        \* exception raised in the current cycle, "none" if none
          data,         \* demo series of the latest show_demo_analytics call
          prev_data,    \* demo series of the show_demo_analytics call before it
          prev_cycle    \* page, selection and output of the last finished cycle

vars == <<sas_tools, pc, page, selection, output, calls, error, data,
          prev_data, prev_cycle>>

\* Number of distinct seeds of the random generator explored per draw.
MaxSeed == 3

None == "<None>"

----------------------------------------------------------------------------
\* Python dict helpers.

Keys(d) == [i \in DOMAIN d |-> d[i].key]

Values(d) == [i \in DOMAIN d |-> d[i].value]

HasKey(d, k) == \E i \in DOMAIN d : d[i].key = k

GetItem(d, k) == d[CHOOSE i \in DOMAIN d : d[i].key = k].value

Range(s) == {s[i] : i \in DOMAIN s}

SumSeq(s) ==
  LET sum[i \in 0..Len(s)] == IF i = 0 THEN 0 ELSE sum[i - 1] + s[i]
  IN sum[Len(s)]

\* Truthiness of a str-or-None value.
Truthy(v) == v # None /\ v # ""

----------------------------------------------------------------------------
\* The literal of sas_tools.

SasToolsLiteral ==
  << [key |-> "SAS Base", value |->
        [description |-> "The core module of SAS, providing extensive data manipulation techniques and sophisticated statistical algorithms.",
         key_features |-> <<"Data Management", "Statistical Analysis", "Report Writing", "Programming Interface">>,
         use_cases |-> <<"Data Cleaning", "Basic Statistics", "Custom Reports", "Data Transformation">>]],
     [key |-> "SAS Enterprise Guide", value |->
        [description |-> "A user-friendly, point-and-click Windows client interface for quick access to SAS analytics.",
         key_features |-> <<"Visual Interface", "Workflow Designer", "Built-in Tasks", "Project Organization">>,
         use_cases |-> <<"Business Reports", "Statistical Analysis", "Data Exploration", "Process Automation">>]],
     [key |-> "SAS Visual Analytics", value |->
        [description |-> "A visual analytics software for creating interactive dashboards, reports, and data visualizations.",
         key_features |-> <<"Interactive Dashboards", "Mobile Support", "Data Discovery", "Smart Visualizations">>,
         use_cases |-> <<"Executive Dashboards", "Self-service Analytics", "Performance Monitoring", "Data Storytelling">>]],
     [key |-> "SAS Viya", value |->
        [description |-> "A cloud-based platform for artificial intelligence, machine learning, analytics, and data management.",
         key_features |-> <<"Cloud Native", "Open Source Integration", "Scalable Processing", "Modern Architecture">>,
         use_cases |-> <<"Enterprise AI", "Cloud Analytics", "Real-time Decisions", "Distributed Computing">>]] >>

----------------------------------------------------------------------------
\* Streamlit elements.

Text(kind, text) == [kind |-> kind, text |-> text]

\* An element whose text is the f-string f"{prefix}{text}".
FText(kind, prefix, text) == [kind |-> kind, prefix |-> prefix, text |-> text]

Write(prefix, text) == FText("write", prefix, text)

\* A single-choice widget returns one of its options; None when it has none.
WidgetValues(options) == IF options = <<>> THEN {None} ELSE Range(options)

Widget(kind, label, options, value) ==
  [kind |-> kind, label |-> label, options |-> options, value |-> value]

NoData == [Date |-> <<>>, Sales |-> <<>>, Customers |-> <<>>, Satisfaction |-> <<>>]

NoCycle == [page |-> None, selection |-> None, output |-> <<>>]

Renderers == {"show_overview", "show_tool_explorer", "show_features_comparison",
              "show_industry_applications", "show_demo_analytics"}

----------------------------------------------------------------------------
\* main()

NavOptions == <<"Overview", "Tool Explorer", "Features Comparison",
                "Industry Applications", "Demo Analytics">>

\* Dispatch with the calls of two branches exchanged.
Dispatch_Swapped(p) ==
  IF p = "Overview" THEN "show_overview"
  ELSE IF p = "Tool Explorer" THEN "show_tool_explorer"
  ELSE IF p = "Features Comparison" THEN "show_industry_applications"
  ELSE IF p = "Industry Applications" THEN "show_features_comparison"
  ELSE IF p = "Demo Analytics" THEN "show_demo_analytics"
  ELSE "done"

\* The if/elif chain of main(): the renderer called for a page, "done" when
\* no branch matches and main() returns without calling one.
Dispatch(p) ==
  IF p = "Overview" THEN "show_overview"
  ELSE IF p = "Tool Explorer" THEN "show_tool_explorer"
  ELSE IF p = "Features Comparison" THEN "show_features_comparison"
  ELSE IF p = "Industry Applications" THEN "show_industry_applications"
  ELSE IF p = "Demo Analytics" THEN "show_demo_analytics"
  ELSE "done"

\* A display cycle starts: title, rule, sidebar, radio, then the branch.
Main ==
  /\ pc \in {"idle", "done"}
  /\ \E p \in WidgetValues(NavOptions) :
       /\ page' = p
       /\ output' = << Text("title", "SAS Analytics Tools Explorer"),
                       Text("markdown", "---"),
                       Text("sidebar.title", "Navigation"),
                       Widget("sidebar.radio", "Choose a section:", NavOptions, p) >>
       /\ pc' = Dispatch(p)
  /\ prev_cycle' = IF pc = "done"
                   THEN [page |-> page, selection |-> selection, output |-> output]
                   ELSE prev_cycle
  /\ selection' = None
  /\ calls' = [r \in Renderers |-> 0]
  /\ error' = "none"
  /\ UNCHANGED <<sas_tools, data, prev_data>>

Enter(r) == calls' = [calls EXCEPT ![r] = @ + 1]

----------------------------------------------------------------------------
\* show_overview()

benefits == <<"Comprehensive Statistical Analysis", "Advanced Data Visualization",
              "Integrated Machine Learning", "Cloud-Based Deployment",
              "Open Source Interoperability">>

overview_industries == <<"Business Intelligence", "Risk Management",
                         "Environmental Analytics", "Social Media Analytics",
                         "Healthcare Analytics">>

show_overview ==
  /\ pc = "show_overview"
  /\ Enter("show_overview")
  /\ output' = output
       \o << Text("header", "SAS Data Analytics Platform Overview"),
             Write("", "SAS (Statistical Analysis System) is a comprehensive data analytics platform"),
             Text("subheader", "Key Benefits") >>
       \o [i \in DOMAIN benefits |-> Write("", benefits[i])]
       \o << Text("subheader", "Industry Applications") >>
       \o [i \in DOMAIN overview_industries |-> Write("", overview_industries[i])]
  /\ pc' = "done"
  /\ UNCHANGED <<sas_tools, page, selection, error, data, prev_data, prev_cycle>>

----------------------------------------------------------------------------
\* show_tool_explorer()

\* The selectbox offering a tool that sas_tools does not hold.
ToolOptions_Extra(tools) == Append(Keys(tools), "SAS Studio")

\* Options of the tool selectbox: list(sas_tools.keys()).
ToolOptions(tools) == Keys(tools)

\* The body of show_tool_explorer() once the selectbox returned selected_tool.
ToolExplorerRender(selected_tool) ==
  LET head == output
              \o << Text("header", "SAS Tools Explorer"),
                    Widget("selectbox", "Select a SAS tool to explore:",
                           ToolOptions(sas_tools), selected_tool) >>
  IN
  /\ selection' = selected_tool
  /\ IF ~Truthy(selected_tool)
     THEN /\ output' = head
          /\ pc' = "done"
          /\ error' = error
     ELSE IF ~HasKey(sas_tools, selected_tool)
     THEN \* sas_tools[selected_tool] raises KeyError
          /\ output' = head
          /\ pc' = "error"
          /\ error' = "KeyError"
     ELSE LET tool_info == GetItem(sas_tools, selected_tool) IN
          /\ output' = head
               \o << FText("subheader", "About ", selected_tool),
                     Write("", tool_info.description),
                     Text("subheader", "Key Features") >>
               \o [i \in DOMAIN tool_info.key_features |->
                     Write("* ", tool_info.key_features[i])]
               \o << Text("subheader", "Common Use Cases") >>
               \o [i \in DOMAIN tool_info.use_cases |->
                     Write("pin ", tool_info.use_cases[i])]
          /\ pc' = "done"
          /\ error' = error

Reverse(s) == [i \in DOMAIN s |-> s[Len(s) + 1 - i]]

\* show_tool_explorer reversing, in place, the feature list of the tool it shows.
show_tool_explorer_InPlace ==
  /\ pc = "show_tool_explorer"
  /\ Enter("show_tool_explorer")
  /\ \E selected_tool \in WidgetValues(ToolOptions(sas_tools)) :
       /\ ToolExplorerRender(selected_tool)
       /\ sas_tools' = [i \in DOMAIN sas_tools |->
                          IF sas_tools[i].key = selected_tool
                          THEN [sas_tools[i] EXCEPT !.value.key_features = Reverse(@)]
                          ELSE sas_tools[i]]
  /\ UNCHANGED <<page, data, prev_data, prev_cycle>>

show_tool_explorer ==
  /\ pc = "show_tool_explorer"
  /\ Enter("show_tool_explorer")
  /\ \E selected_tool \in WidgetValues(ToolOptions(sas_tools)) :
       ToolExplorerRender(selected_tool)
  /\ UNCHANGED <<sas_tools, page, data, prev_data, prev_cycle>>

----------------------------------------------------------------------------
\* show_features_comparison()

features == <<"Statistical Analysis", "Data Visualization", "Machine Learning",
              "Cloud Support", "Open Source Integration">>

\* comparison_data with a row one value short.
comparison_data_ShortRow ==
  << [key |-> "SAS Base",             value |-> <<TRUE, FALSE, FALSE, FALSE, FALSE>>],
     [key |-> "SAS Enterprise Guide", value |-> <<TRUE, TRUE, FALSE, FALSE, FALSE>>],
     [key |-> "SAS Visual Analytics", value |-> <<TRUE, TRUE, FALSE, TRUE>>],
     [key |-> "SAS Viya",             value |-> <<TRUE, TRUE, TRUE, TRUE, TRUE>>] >>

\* comparison_data with a column named after a tool sas_tools does not hold.
comparison_data_OtherTool ==
  << [key |-> "SAS Base",             value |-> <<TRUE, FALSE, FALSE, FALSE, FALSE>>],
     [key |-> "SAS Enterprise Guide", value |-> <<TRUE, TRUE, FALSE, FALSE, FALSE>>],
     [key |-> "SAS Visual Analytics", value |-> <<TRUE, TRUE, FALSE, TRUE, TRUE>>],
     [key |-> "SAS Studio",           value |-> <<TRUE, TRUE, TRUE, TRUE, TRUE>>] >>

comparison_data ==
  << [key |-> "SAS Base",             value |-> <<TRUE, FALSE, FALSE, FALSE, FALSE>>],
     [key |-> "SAS Enterprise Guide", value |-> <<TRUE, TRUE, FALSE, FALSE, FALSE>>],
     [key |-> "SAS Visual Analytics", value |-> <<TRUE, TRUE, FALSE, TRUE, TRUE>>],
     [key |-> "SAS Viya",             value |-> <<TRUE, TRUE, TRUE, TRUE, TRUE>>] >>

\* pd.DataFrame(columns, index=index) raises ValueError unless every column
\* has as many values as the index.
FrameOk(columns, index) ==
  \A i \in DOMAIN columns : Len(columns[i].value) = Len(index)

\* The lambda given to Styler.applymap.
CellStyle(x) == IF x THEN "background-color: #90EE90" ELSE "background-color: #FFB6C1"

show_features_comparison ==
  /\ pc = "show_features_comparison"
  /\ Enter("show_features_comparison")
  /\ LET head == output \o << Text("header", "Features Comparison") >> IN
     IF ~FrameOk(comparison_data, features)
     THEN /\ output' = head
          /\ pc' = "error"
          /\ error' = "ValueError"
     ELSE /\ output' = head
               \o << [kind |-> "dataframe",
                      index |-> features,
                      columns |-> Keys(comparison_data),
                      cells |-> Values(comparison_data),
                      style |-> [c \in DOMAIN comparison_data |->
                                   [r \in DOMAIN comparison_data[c].value |->
                                      CellStyle(comparison_data[c].value[r])]]] >>
          /\ pc' = "done"
          /\ error' = error
  /\ UNCHANGED <<sas_tools, page, selection, data, prev_data, prev_cycle>>

----------------------------------------------------------------------------
\* show_industry_applications()

industries ==
  << [key |-> "Business Intelligence", value |->
        [icon |-> "briefcase",
         applications |-> <<"Data Warehousing", "ETL Processes", "Reporting", "Analytics">>,
         popularity |-> 85]],
     [key |-> "Risk Management", value |->
        [icon |-> "warning",
         applications |-> <<"Credit Risk", "Market Risk", "Operational Risk", "Compliance">>,
         popularity |-> 75]],
     [key |-> "Environmental Analytics", value |->
        [icon |-> "globe",
         applications |-> <<"Deforestation Monitoring", "Climate Analysis", "Resource Management">>,
         popularity |-> 60]],
     [key |-> "Social Media Analytics", value |->
        [icon |-> "phone",
         applications |-> <<"Sentiment Analysis", "Trend Monitoring", "Engagement Tracking">>,
         popularity |-> 70]] >>

\* industry_data with the percentages scaled a second time.
industry_data_Scaled ==
  [Industry |-> Keys(industries),
   Popularity |-> [i \in DOMAIN industries |-> industries[i].value.popularity * 100]]

\* industry_data: the Industry and Popularity columns.
industry_data ==
  [Industry |-> Keys(industries),
   Popularity |-> [i \in DOMAIN industries |-> industries[i].value.popularity]]

\* The expander of one industry and the lines written inside it.
RECURSIVE Expanders(_)
Expanders(d) ==
  IF d = <<>> THEN <<>>
  ELSE LET industry == Head(d).key
           details == Head(d).value
       IN << [kind |-> "expander", icon |-> details.icon, text |-> industry],
             Write("", "Common Applications:") >>
          \o [i \in DOMAIN details.applications |-> Write("* ", details.applications[i])]
          \o Expanders(Tail(d))

show_industry_applications ==
  /\ pc = "show_industry_applications"
  /\ Enter("show_industry_applications")
  /\ output' = output
       \o << Text("header", "Industry Applications"),
             [kind |-> "plotly_chart", chart |-> "bar",
              title |-> "Industry Adoption of SAS Analytics",
              x |-> industry_data.Industry,
              y |-> industry_data.Popularity,
              ylabel |-> "Adoption Rate (%)"] >>
       \o Expanders(industries)
  /\ pc' = "done"
  /\ UNCHANGED <<sas_tools, page, selection, error, data, prev_data, prev_cycle>>

----------------------------------------------------------------------------
\* show_demo_analytics()

\* Dates are <<year, month, day>>.
IsLeap(y) == (y % 4 = 0 /\ y % 100 # 0) \/ y % 400 = 0

DaysInMonth(y, m) ==
  IF m = 2 THEN (IF IsLeap(y) THEN 29 ELSE 28)
  ELSE IF m \in {4, 6, 9, 11} THEN 30 ELSE 31

DateLE(a, b) ==
  \/ a[1] < b[1]
  \/ a[1] = b[1] /\ a[2] < b[2]
  \/ a[1] = b[1] /\ a[2] = b[2] /\ a[3] <= b[3]

\* date_range leaving out a month end that falls on `end`.
date_range_EndExclusive(start, end) ==
  LET months == (end[1] - start[1] + 1) * 12
      all == [k \in 1..months |->
                LET y == start[1] + (k - 1) \div 12
                    m == ((k - 1) % 12) + 1
                IN <<y, m, DaysInMonth(y, m)>>]
      InRange(d) == DateLE(start, d) /\ DateLE(d, end) /\ d # end
  IN SelectSeq(all, InRange)

\* pd.date_range(start, end, freq="M"): the month-end dates in [start, end].
date_range(start, end) ==
  LET months == (end[1] - start[1] + 1) * 12
      all == [k \in 1..months |->
                LET y == start[1] + (k - 1) \div 12
                    m == ((k - 1) % 12) + 1
                IN <<y, m, DaysInMonth(y, m)>>]
      InRange(d) == DateLE(start, d) /\ DateLE(d, end)
  IN SelectSeq(all, InRange)

\* The streams an unseeded generator can produce.
Streams == 0..MaxSeed

\* The generator is unseeded: what one invocation draws is one of the
\* streams the generator can produce, named here by a seed.  Quantile(seed, k)
\* is the position of the k-th value of that stream among three sample points.
Quantile(seed, k) == ((seed * k + k \div 5 + seed \div 3) % 3) + 1

\* np.random.normal(loc, scale, size), in tenths, drawn from the stream after
\* `drawn` values; sample points are the z-scores -1.281, 0.253 and 0.842.
normal(loc, scale, size, seed, drawn) ==
  [i \in 1..size |->
     loc * 10 + (scale * (<<-1281, 253, 842>>)[Quantile(seed, drawn + i)]) \div 100]

\* np.random.uniform(low, high, size), low and high and the result in
\* hundredths; sample points are 0.1, 0.5 and 0.9 of the way.
uniform(low, high, size, seed, drawn) ==
  [i \in 1..size |->
     low + ((high - low) * (<<1, 5, 9>>)[Quantile(seed, drawn + i)]) \div 10]

\* Round num/den to the nearest integer, ties to even, as float formatting does.
RoundHalfEven(num, den) ==
  LET q == num \div den
      r == num % den
  IN IF 2 * r < den THEN q
     ELSE IF 2 * r > den THEN q + 1
     ELSE IF q % 2 = 0 THEN q ELSE q + 1

\* Digit groups of the "," thousands separator, most significant first.
RECURSIVE Groups(_)
Groups(n) == IF n < 1000 THEN <<n>> ELSE Append(Groups(n \div 1000), n % 1000)

\* f"{prefix}{num/den:,.0f}{suffix}"; "nan" when the value is 0/0.
Format0(prefix, num, den, suffix) ==
  IF den = 0
  THEN [prefix |-> prefix, nan |-> TRUE, whole |-> <<>>, frac |-> <<>>, suffix |-> suffix]
  ELSE [prefix |-> prefix, nan |-> FALSE,
        whole |-> Groups(RoundHalfEven(num, den)), frac |-> <<>>, suffix |-> suffix]

\* f"{prefix}{num/den:.1f}{suffix}"
Format1(prefix, num, den, suffix) ==
  IF den = 0
  THEN [prefix |-> prefix, nan |-> TRUE, whole |-> <<>>, frac |-> <<>>, suffix |-> suffix]
  ELSE LET t == RoundHalfEven(num * 10, den) IN
       [prefix |-> prefix, nan |-> FALSE,
        whole |-> <<t \div 10>>, frac |-> <<t % 10>>, suffix |-> suffix]

Metric(label, value) == [kind |-> "metric", label |-> label, value |-> value]

\* The first statistic computed from the Customers column.
AverageSales_OtherField(d) == Format0("$", SumSeq(d.Customers), 10 * Len(d.Customers), "")

\* data['Sales'].mean(), Sales being in tenths
AverageSales(d) == Format0("$", SumSeq(d.Sales), 10 * Len(d.Sales), "")

\* data['Customers'].sum(), Customers being in tenths
TotalCustomers(d) == Format0("", SumSeq(d.Customers), 10, "")

\* data['Satisfaction'].mean(), Satisfaction being in hundredths
AvgSatisfaction(d) ==
  Format1("", SumSeq(d.Satisfaction), 100 * Len(d.Satisfaction), "/5.0")

\* The metric selectbox offering a name that is not a column.
MetricOptions_NoColumn == <<"Sales", "Customers", "Satisfaction", "Revenue">>

MetricOptions == <<"Sales", "Customers", "Satisfaction">>

\* The sample data with a number of rows that depends on what is drawn.
DemoFrame_RandomRows(dates, seed) ==
  LET n == Len(dates) - seed IN
  [Date |-> SubSeq(dates, 1, n),
   Sales |-> normal(1000, 200, n, seed, 0),
   Customers |-> normal(500, 100, n, seed, n),
   Satisfaction |-> uniform(350, 500, n, seed, 2 * n)]

\* The columns of the sample data, before pd.DataFrame checks them.
DemoFrame(dates, seed) ==
  [Date |-> dates,
   Sales |-> normal(1000, 200, Len(dates), seed, 0),
   Customers |-> normal(500, 100, Len(dates), seed, Len(dates)),
   Satisfaction |-> uniform(350, 500, Len(dates), seed, 2 * Len(dates))]

\* pd.DataFrame of the four columns raises ValueError unless they are of
\* one length.
DemoFrameOk(d) ==
  /\ Len(d.Sales) = Len(d.Date)
  /\ Len(d.Customers) = Len(d.Date)
  /\ Len(d.Satisfaction) = Len(d.Date)

show_demo_analytics ==
  /\ pc = "show_demo_analytics"
  /\ Enter("show_demo_analytics")
  /\ \E seed \in Streams, metric_choice \in WidgetValues(MetricOptions) :
       \E dates \in {date_range(<<2024, 1, 1>>, <<2024, 12, 31>>)} :
       \E frame \in {DemoFrame(dates, seed)} :
       LET head == output \o << Text("header", "Demo Analytics Dashboard") >>
           select == Widget("selectbox", "Select metric to visualize:",
                            MetricOptions, metric_choice)
       IN
       IF ~DemoFrameOk(frame)
       THEN /\ output' = head
            /\ pc' = "error"
            /\ error' = "ValueError"
            /\ UNCHANGED <<selection, data, prev_data>>
       ELSE /\ data' = frame
            /\ prev_data' = data
            /\ selection' = metric_choice
            /\ IF metric_choice \notin DOMAIN frame
               THEN \* px.line rejects a y that is not a column
                    /\ output' = head \o <<select>>
                    /\ pc' = "error"
                    /\ error' = "ValueError"
               ELSE /\ output' = head
                         \o << select,
                               [kind |-> "plotly_chart", chart |-> "line",
                                title |-> <<metric_choice, " Trend Analysis">>,
                                x |-> frame.Date,
                                y |-> frame[metric_choice],
                                ylabel |-> metric_choice],
                               Text("subheader", "Summary Statistics"),
                               Metric("Average Sales", AverageSales(frame)),
                               Metric("Total Customers", TotalCustomers(frame)),
                               Metric("Avg Satisfaction", AvgSatisfaction(frame)) >>
                    /\ pc' = "done"
                    /\ error' = error
  /\ UNCHANGED <<sas_tools, page, prev_cycle>>

----------------------------------------------------------------------------
Init ==
  /\ sas_tools = SasToolsLiteral
  /\ pc = "idle"
  /\ page = None
  /\ selection = None
  /\ output = <<>>
  /\ calls = [r \in Renderers |-> 0]
  /\ error = "none"
  /\ data = NoData
  /\ prev_data = NoData
  /\ prev_cycle = NoCycle

Next ==
  \/ Main
  \/ show_overview
  \/ show_tool_explorer
  \/ show_features_comparison
  \/ show_industry_applications
  \/ show_demo_analytics

Spec == Init /\ [][Next]_vars

\* The renderers run to their end once called; when the next display cycle
\* starts is up to the user.
FairSpec ==
  /\ Spec
  /\ WF_vars(show_overview)
  /\ WF_vars(show_tool_explorer)
  /\ WF_vars(show_features_comparison)
  /\ WF_vars(show_industry_applications)
  /\ WF_vars(show_demo_analytics)

----------------------------------------------------------------------------
\* Properties.

Finished(p) == pc = "done" /\ page = p

\* The texts of the emitted elements of one kind and f-string prefix.
Emitted(kind, prefix) ==
  LET Is(e) == e.kind = kind /\ "prefix" \in DOMAIN e /\ e.prefix = prefix
      sel == SelectSeq(output, Is)
  IN [i \in DOMAIN sel |-> sel[i].text]

LastElement == output[Len(output)]

\* C1: a display cycle for a page of the navigation set has called the
\* renderer of that page exactly once and no other renderer; no renderer is
\* ever called twice in a cycle.
C1_OneRendererPerCycle ==
  LET renderer == [p \in {"Overview", "Tool Explorer", "Features Comparison",
                          "Industry Applications", "Demo Analytics"} |->
                     CASE p = "Overview" -> "show_overview"
                       [] p = "Tool Explorer" -> "show_tool_explorer"
                       [] p = "Features Comparison" -> "show_features_comparison"
                       [] p = "Industry Applications" -> "show_industry_applications"
                       [] p = "Demo Analytics" -> "show_demo_analytics"]
  IN /\ \A r \in Renderers : calls[r] <= 1
     /\ pc = "done" =>
          /\ page \in DOMAIN renderer
          /\ \A r \in Renderers : calls[r] = IF r = renderer[page] THEN 1 ELSE 0

C1_Witness ==
  /\ Finished("Industry Applications")
  /\ calls["show_industry_applications"] = 1
  /\ calls["show_overview"] = 0

\* C2: no display cycle enters the error state, and every renderer that was
\* called reaches its end, whatever the dropdown returned.
C2_EveryDispatchCompletes ==
  /\ [](pc # "error" /\ error = "none")
  /\ \A r \in Renderers : (pc = r) ~> (pc = "done" /\ calls[r] = 1 /\ error = "none")

C2_Witness ==
  /\ Finished("Demo Analytics")
  /\ selection = "Customers"
  /\ error = "none"
  /\ prev_cycle.page = "Tool Explorer"

\* C3: the Tool Explorer never raises KeyError, and a finished Tool Explorer
\* cycle has shown, for a tool of sas_tools, its non-empty description, its
\* non-empty feature list and its non-empty use-case list.
C3_ToolExplorerShowsTool ==
  /\ error # "KeyError"
  /\ page = "Tool Explorer" => pc # "error"
  /\ Finished("Tool Explorer") =>
       /\ HasKey(SasToolsLiteral, selection)
       /\ LET tool == GetItem(SasToolsLiteral, selection) IN
          /\ Emitted("write", "") = <<tool.description>>
          /\ tool.description # ""
          /\ Emitted("write", "* ") = tool.key_features
          /\ Emitted("write", "* ") # <<>>
          /\ Emitted("write", "pin ") = tool.use_cases
          /\ Emitted("write", "pin ") # <<>>

C3_Witness ==
  /\ Finished("Tool Explorer")
  /\ selection = "SAS Viya"
  /\ Emitted("write", "* ") = <<"Cloud Native", "Open Source Integration",
                                "Scalable Processing", "Modern Architecture">>

\* C4: the Features Comparison page builds its table without error, and every
\* tool column of the table holds exactly 5 boolean values, as many as there
\* are feature names.
C4_FiveBooleansPerTool ==
  page = "Features Comparison" /\ pc \in {"done", "error"} =>
    /\ pc = "done"
    /\ LastElement.kind = "dataframe"
    /\ Len(LastElement.index) = 5
    /\ \A c \in DOMAIN LastElement.cells :
         /\ Len(LastElement.cells[c]) = 5
         /\ Len(LastElement.cells[c]) = Len(LastElement.index)
         /\ \A r \in DOMAIN LastElement.cells[c] : LastElement.cells[c][r] \in BOOLEAN

C4_Witness ==
  /\ Finished("Features Comparison")
  /\ LastElement.kind = "dataframe"
  /\ Len(LastElement.cells) = 4
  /\ LastElement.cells[3] = <<TRUE, TRUE, FALSE, TRUE, TRUE>>

\* C5: every popularity value the Industry Applications page gives to the bar
\* chart is between 0 and 100.
C5_PopularityInRange ==
  Finished("Industry Applications") =>
    \A i \in DOMAIN output :
      (output[i].kind = "plotly_chart" /\ output[i].chart = "bar") =>
        \A j \in DOMAIN output[i].y : output[i].y[j] >= 0 /\ output[i].y[j] <= 100

C5_Witness ==
  /\ Finished("Industry Applications")
  /\ \E i \in DOMAIN output :
       /\ output[i].kind = "plotly_chart"
       /\ output[i].chart = "bar"
       /\ output[i].y = <<85, 75, 60, 70>>

MonthEnds2024 ==
  << <<2024, 1, 31>>, <<2024, 2, 29>>, <<2024, 3, 31>>, <<2024, 4, 30>>,
     <<2024, 5, 31>>, <<2024, 6, 30>>, <<2024, 7, 31>>, <<2024, 8, 31>>,
     <<2024, 9, 30>>, <<2024, 10, 31>>, <<2024, 11, 30>>, <<2024, 12, 31>> >>

\* C6: the demo series built by show_demo_analytics has 12 rows, dated with the
\* month ends of January to December 2024, and 12 values in each of Sales,
\* Customers and Satisfaction, whatever was drawn.
C6_TwelveMonthEnds ==
  /\ page = "Demo Analytics" => pc # "error"
  /\ Finished("Demo Analytics") =>
       /\ Len(data.Date) = 12
       /\ data.Date = MonthEnds2024
       /\ Len(data.Sales) = 12
       /\ Len(data.Customers) = 12
       /\ Len(data.Satisfaction) = 12

C6_Witness ==
  /\ Finished("Demo Analytics")
  /\ data.Date[2] = <<2024, 2, 29>>
  /\ data.Sales[1] # data.Sales[2]

\* C7: two successive invocations of show_demo_analytics build series with
\* the same number of rows and the same dates, whatever each of them drew.
C7_SameRowsSameDates ==
  (page = "Demo Analytics" /\ pc \in {"done", "error"} /\ prev_data # NoData) =>
    /\ pc = "done"
    /\ Len(data.Date) = Len(prev_data.Date)
    /\ data.Date = prev_data.Date
    /\ Len(data.Sales) = Len(prev_data.Sales)
    /\ Len(data.Customers) = Len(prev_data.Customers)
    /\ Len(data.Satisfaction) = Len(prev_data.Satisfaction)

C7_Witness ==
  /\ Finished("Demo Analytics")
  /\ prev_data # NoData
  /\ data.Date = prev_data.Date
  /\ data.Sales # prev_data.Sales
  /\ data.Customers # prev_data.Customers
  /\ data.Satisfaction # prev_data.Satisfaction

\* An output without what depends on the demo series: the plotted values of
\* the line chart and the values of the summary statistics.
WithoutSeries(out) ==
  [i \in DOMAIN out |->
     IF out[i].kind = "plotly_chart" /\ out[i].chart = "line"
     THEN [out[i] EXCEPT !.y = <<>>]
     ELSE IF out[i].kind = "metric"
     THEN [out[i] EXCEPT !.value = <<>>]
     ELSE out[i]]

\* C8: sas_tools always equals its literal, and a display cycle of the same
\* page and dropdown selection as the cycle before it emits the same output
\* apart from what is computed from the resampled demo series.
C8_NoStateBetweenRenders ==
  /\ sas_tools = SasToolsLiteral
  /\ (pc = "done" /\ prev_cycle.page = page /\ prev_cycle.selection = selection) =>
       WithoutSeries(output) = WithoutSeries(prev_cycle.output)

C8_Witness ==
  /\ Finished("Demo Analytics")
  /\ prev_cycle.page = "Demo Analytics"
  /\ prev_cycle.selection = selection
  /\ output # prev_cycle.output
  /\ sas_tools = SasToolsLiteral

\* C9: a finished Demo Analytics cycle ends with the line chart of the chosen
\* column of the one sampled series, then the mean of Sales, the sum of
\* Customers and the mean of Satisfaction of that same series, whichever
\* metric was chosen.
C9_ChartThenThreeStatistics ==
  Finished("Demo Analytics") =>
    LET n == Len(output) IN
    /\ selection \in {"Sales", "Customers", "Satisfaction"}
    /\ output[n - 4].kind = "plotly_chart"
    /\ output[n - 4].chart = "line"
    /\ output[n - 4].ylabel = selection
    /\ output[n - 4].x = data.Date
    /\ output[n - 4].y = (CASE selection = "Sales" -> data.Sales
                            [] selection = "Customers" -> data.Customers
                            [] selection = "Satisfaction" -> data.Satisfaction)
    /\ output[n - 3] = Text("subheader", "Summary Statistics")
    /\ output[n - 2] = Metric("Average Sales",
                              Format0("$", SumSeq(data.Sales), 10 * 12, ""))
    /\ output[n - 1] = Metric("Total Customers",
                              Format0("", SumSeq(data.Customers), 10, ""))
    /\ output[n] = Metric("Avg Satisfaction",
                          Format1("", SumSeq(data.Satisfaction), 100 * 12, "/5.0"))

C9_Witness ==
  /\ Finished("Demo Analytics")
  /\ selection = "Satisfaction"
  /\ output[Len(output) - 4].y = data.Satisfaction
  /\ output[Len(output) - 2].label = "Average Sales"
  /\ data.Satisfaction # <<>>

\* C10: the columns of the feature comparison table are the tool names of
\* sas_tools, in the same order.
C10_SameToolsSameOrder ==
  page = "Features Comparison" /\ pc \in {"done", "error"} =>
    /\ pc = "done"
    /\ LastElement.kind = "dataframe"
    /\ LastElement.columns = Keys(sas_tools)

C10_Witness ==
  /\ Finished("Features Comparison")
  /\ LastElement.columns[4] = "SAS Viya"
  /\ Len(Keys(sas_tools)) = 4
====
